---------------------------- MODULE Spec2Model ----------------------------
(***************************************************************************)
(* A model of coreyjadams/VoxNet:                                          *)
(*   models/rpn_utils.py            anchor boxes and Intersection over     *)
(*                                  Union                                  *)
(*   model_mnist_test/test_densenet.py   the training loop and its         *)
(*                                  checkpointing                          *)
(*                                                                         *)
(* Array elements are floating-point numbers in the source.  They are      *)
(* modelled as exact rationals <<n, d>> in lowest terms with d > 0; every  *)
(* input of the model is a number that binary floating point holds         *)
(* exactly, and so is every intermediate value except the quotients of     *)
(* the IoU functions and the third of a height in generate_anchors.        *)
(***************************************************************************)
EXTENDS Integers, Sequences, FiniteSets, TLC

VARIABLES
    pc,           \* position of the running program
    args,         \* the arguments of the call under way (a record)
    ret,          \* what the call returned (or the exception it raised)
    heap,         \* array buffers by reference: heap[r] is a 2-D array
    hist,         \* the conversion calls made so far, oldest first
    i,            \* loop variable of the training loop
    global_step,  \* the tf.Variable global_step
    batches,      \* number of mnist.train.next_batch calls made
    checkpoints   \* the global_step values under which saver.save ran

vars == <<pc, args, ret, heap, hist, i, global_step, batches, checkpoints>>

-----------------------------------------------------------------------------
(* Bounds of the model.                                                    *)

MaxCoord == 1      \* box centres range over 0..MaxCoord
MaxExt == 2        \* box widths and heights range up to MaxExt
MaxBoxes == 4      \* longest box set given to the conversions
MaxCalls == 2      \* longest chain of conversion calls

-----------------------------------------------------------------------------
(* Exact rational arithmetic.                                              *)

Abs(x) == IF x < 0 THEN -x ELSE x

RECURSIVE GCD(_, _)
GCD(a, b) == IF b = 0 THEN a ELSE GCD(b, a % b)

Q(n, d) ==
    LET g == GCD(Abs(n), Abs(d))
        s == IF d < 0 THEN -1 ELSE 1
    IN  <<(s * n) \div g, (s * d) \div g>>

QInt(n) == <<n, 1>>
QAdd(x, y) == Q(x[1] * y[2] + y[1] * x[2], x[2] * y[2])
QSub(x, y) == Q(x[1] * y[2] - y[1] * x[2], x[2] * y[2])
QMul(x, y) == Q(x[1] * y[1], x[2] * y[2])
QDiv(x, y) == Q(x[1] * y[2], x[2] * y[1])
QLe(x, y) == x[1] * y[2] <= y[1] * x[2]
QLt(x, y) == x[1] * y[2] < y[1] * x[2]
QMax(x, y) == IF QLe(x, y) THEN y ELSE x
QMin(x, y) == IF QLe(x, y) THEN x ELSE y
QZero == QInt(0)
QHalf == Q(1, 2)

QBox(b) == <<QInt(b[1]), QInt(b[2]), QInt(b[3]), QInt(b[4])>>

-----------------------------------------------------------------------------
(* Arrays.  A 2-D array is a sequence of rows; a column index c is         *)
(* 0-based as in the source.                                               *)

Min2(a, b) == IF a <= b THEN a ELSE b
Max2(a, b) == IF a >= b THEN a ELSE b

Col(a, c) == [r \in 1..Len(a) |-> a[r][c + 1]]
SetCol(a, c, v) == [r \in 1..Len(a) |-> [a[r] EXCEPT ![c + 1] = v[r]]]
VAdd(u, v) == [r \in 1..Len(u) |-> QAdd(u[r], v[r])]
VSub(u, v) == [r \in 1..Len(u) |-> QSub(u[r], v[r])]
VScale(k, v) == [r \in 1..Len(v) |-> QMul(k, v[r])]

\* numpy's broadcasting rule for the shapes of two operands: the shapes are
\* aligned at their last axis; two lengths agree when they are equal or one
\* of them is 1.
PadShape(s, n) == [k \in 1..n |-> IF k <= n - Len(s) THEN 1 ELSE s[k - (n - Len(s))]]

BroadcastOk(s, t) ==
    LET n == Max2(Len(s), Len(t))
        ps == PadShape(s, n)
        pt == PadShape(t, n)
    IN  \A k \in 1..n : ps[k] = pt[k] \/ ps[k] = 1 \/ pt[k] = 1

BroadcastShape(s, t) ==
    LET n == Max2(Len(s), Len(t))
        ps == PadShape(s, n)
        pt == PadShape(t, n)
    IN  [k \in 1..n |-> IF ps[k] = 1 THEN pt[k] ELSE ps[k]]

\* numpy's rule for `target[...] = value`: leading axes of length 1 of the
\* value are dropped while it has more axes than the target, and what is
\* left must broadcast to the target's shape.
RECURSIVE StripLeadingOnes(_, _)
StripLeadingOnes(s, n) ==
    IF Len(s) > n /\ s[1] = 1 THEN StripLeadingOnes(Tail(s), n) ELSE s

CanAssign(valueShape, targetShape) ==
    LET v == StripLeadingOnes(valueShape, Len(targetShape))
    IN  /\ Len(v) <= Len(targetShape)
        /\ BroadcastOk(v, targetShape)
        /\ BroadcastShape(v, targetShape) = targetShape

-----------------------------------------------------------------------------
(* Coordinate conversion (rpn_utils.py, lines 3-41).                       *)

WhctrsToMinmaxWidthFirst(anchors) ==
    LET a1 == SetCol(anchors, 2, VAdd(Col(anchors, 2), Col(anchors, 0)))
        a2 == SetCol(a1, 3, VAdd(Col(a1, 3), Col(a1, 1)))
        a3 == SetCol(a2, 0, VSub(Col(a2, 0), VScale(QHalf, Col(a2, 2))))
        a4 == SetCol(a3, 1, VSub(Col(a3, 1), VScale(QHalf, Col(a3, 3))))
    IN  a4

\* Lines 15-20: the four column updates, each on the array left by the one
\* before it.
WhctrsToMinmaxColumns(anchors) ==
    LET a1 == SetCol(anchors, 0, VSub(Col(anchors, 0), VScale(QHalf, Col(anchors, 2))))
        a2 == SetCol(a1, 1, VSub(Col(a1, 1), VScale(QHalf, Col(a1, 3))))
        a3 == SetCol(a2, 2, VAdd(Col(a2, 2), Col(a2, 0)))
        a4 == SetCol(a3, 3, VAdd(Col(a3, 3), Col(a3, 1)))
    IN  a4

\* np.copy: a fresh buffer with the same contents.
NewRef(h) == Len(h) + 1

\* anchors_whctrs_to_minmax(anchors, in_place): `h` is the heap and `ref`
\* the buffer the caller passes.  The result is the heap after the call and
\* the reference returned.
anchors_whctrs_to_minmax(h, ref, in_place) ==
    LET work == IF in_place THEN ref ELSE NewRef(h)
        h1 == IF in_place THEN h ELSE Append(h, h[ref])
    IN  [heap |-> [h1 EXCEPT ![work] = WhctrsToMinmaxColumns(h1[work])],
         raised |-> FALSE,
         ref |-> work]

\* Line 34, `anchors[:2] - anchors[:,0]`: anchors[:2] is the first two ROWS,
\* of shape (min(2, n), 4); anchors[:,0] has shape (n,).
FirstRows(anchors, k) == SubSeq(anchors, 1, Min2(k, Len(anchors)))

\* The difference of a 2-D array `rows` (shape (k, 4)) and a 1-D array `v`,
\* broadcast; defined when the shapes agree.
RowsMinusVector(rows, v) ==
    [r \in 1..Len(rows) |->
        [c \in 1..4 |-> QSub(rows[r][c], v[IF Len(v) = 1 THEN 1 ELSE c])]]

\* `anchors[:,c] = value` for a 2-D value whose shape can be assigned:
\* its one row, of length 1 or n, is spread over the column.
AssignColumn(anchors, c, value) ==
    SetCol(anchors, c,
           [r \in 1..Len(anchors) |-> value[1][IF Len(value[1]) = 1 THEN 1 ELSE r]])

\* Whether line 33+k (k = 1 for line 34, 2 for line 35) raises ValueError:
\* `anchors[:,k+1] = anchors[:k+1] - anchors[:,k-1]`.
WidthLineRaises(anchors, k) ==
    LET rowsShape == <<Min2(k + 1, Len(anchors)), 4>>
        vecShape == <<Len(anchors)>>
    IN  \/ ~BroadcastOk(rowsShape, vecShape)
        \/ ~CanAssign(BroadcastShape(rowsShape, vecShape), <<Len(anchors)>>)

\* Lines 34-39 on the working array: the array as the last statement that
\* completed left it, and whether a ValueError ended the call.
MinmaxToWhctrsColumns(anchors) ==
    IF WidthLineRaises(anchors, 1) THEN [raised |-> TRUE, arr |-> anchors]
    ELSE LET a1 == AssignColumn(anchors, 2,
                       RowsMinusVector(FirstRows(anchors, 2), Col(anchors, 0)))
         IN  IF WidthLineRaises(a1, 2) THEN [raised |-> TRUE, arr |-> a1]
             ELSE LET a2 == AssignColumn(a1, 3,
                                RowsMinusVector(FirstRows(a1, 3), Col(a1, 1)))
                      a3 == SetCol(a2, 0, VAdd(Col(a2, 0), VScale(QHalf, Col(a2, 2))))
                      a4 == SetCol(a3, 1, VAdd(Col(a3, 1), VScale(QHalf, Col(a3, 3))))
                  IN  [raised |-> FALSE, arr |-> a4]

\* anchors_minmax_to_whctrs(anchors, in_place).  A call that raises returns
\* nothing (ref 0).
anchors_minmax_to_whctrs(h, ref, in_place) ==
    LET work == IF in_place THEN ref ELSE NewRef(h)
        h1 == IF in_place THEN h ELSE Append(h, h[ref])
        out == MinmaxToWhctrsColumns(h1[work])
    IN  [heap |-> [h1 EXCEPT ![work] = out.arr],
         raised |-> out.raised,
         ref |-> IF out.raised THEN 0 ELSE work]

-----------------------------------------------------------------------------
(* Inputs: box sets.                                                       *)

\* Centre-form boxes with integer centre and non-negative width and height.
CtrBoxes ==
    {<<x, y, w, h>> : x \in 0..MaxCoord, y \in 0..MaxCoord, w \in 0..MaxExt, h \in 0..MaxExt}

\* A box set of n boxes that differ from one another: box k is b moved by
\* (k-1, 2(k-1)) and widened by k-1.
BoxSet(b, n) ==
    [k \in 1..n |-> QBox(<<b[1] + (k - 1), b[2] + 2 * (k - 1), b[3] + (k - 1), b[4]>>)]

NoCall == [op |-> "none"]

TrainingIdle ==
    /\ i = 0
    /\ global_step = 0
    /\ batches = 0
    /\ checkpoints = {}

-----------------------------------------------------------------------------
(* A caller of the two conversions: it owns buffer 1 and gives each call   *)
(* the array the previous call returned.                                   *)

InitConv ==
    /\ pc = "conv"
    /\ args = NoCall
    /\ ret = <<>>
    /\ \E b \in CtrBoxes, n \in 1..MaxBoxes : heap = <<BoxSet(b, n)>>
    /\ hist = <<>>
    /\ TrainingIdle

Current == IF hist = <<>> THEN 1 ELSE hist[Len(hist)].outRef

CanCall ==
    /\ pc = "conv"
    /\ Len(hist) < MaxCalls
    /\ hist # <<>> => ~hist[Len(hist)].raised

Record(op, in_place, out) ==
    [op |-> op, in_place |-> in_place, inRef |-> Current, inVal |-> heap[Current],
     raised |-> out.raised, outRef |-> out.ref,
     outVal |-> IF out.raised THEN <<>> ELSE out.heap[out.ref]]

CallToMinMax ==
    /\ CanCall
    /\ \E in_place \in BOOLEAN :
          LET out == anchors_whctrs_to_minmax(heap, Current, in_place)
          IN  /\ heap' = out.heap
              /\ hist' = Append(hist, Record("toMinMax", in_place, out))
    /\ UNCHANGED <<pc, args, ret, i, global_step, batches, checkpoints>>

CallToCenterForm ==
    /\ CanCall
    /\ \E in_place \in BOOLEAN :
          LET out == anchors_minmax_to_whctrs(heap, Current, in_place)
          IN  /\ heap' = out.heap
              /\ hist' = Append(hist, Record("toCenterForm", in_place, out))
    /\ UNCHANGED <<pc, args, ret, i, global_step, batches, checkpoints>>

NextConv == CallToMinMax \/ CallToCenterForm

SpecConv == InitConv /\ [][NextConv]_vars

-----------------------------------------------------------------------------
(* Anchor tiling (rpn_utils.py, lines 43-63).                              *)

MaxTemplate == 2   \* longest anchor template given to pad_anchors
MaxTiles == 2      \* tile counts range over 0..MaxTiles

Strides == {-2, 1, 3}

\* np.tile(input_anchors, reps=(n_tiles_x, n_tiles_y, 1, 1)): a 4-D array of
\* shape (n_tiles_x, n_tiles_y, n, 4), every [i][j] a copy of the input.
np_tile4(input_anchors, n_tiles_x, n_tiles_y) ==
    [ix \in 1..n_tiles_x |-> [iy \in 1..n_tiles_y |-> input_anchors]]

AddToCol(a, c, k) == SetCol(a, c, [r \in 1..Len(a) |-> QAdd(a[r][c + 1], QInt(k))])

\* Lines 57-58: for i in xrange(n_tiles_x): list[i,:,:,0] += step_size_x*i
RECURSIVE LoopX(_, _, _, _)
LoopX(list, ix, n_tiles_x, step_size_x) ==
    IF ix >= n_tiles_x THEN list
    ELSE LoopX([list EXCEPT ![ix + 1] =
                   [iy \in 1..Len(list[ix + 1]) |->
                       AddToCol(list[ix + 1][iy], 0, step_size_x * ix)]],
               ix + 1, n_tiles_x, step_size_x)

\* Lines 59-60: for i in xrange(n_tiles_y): list[:,i,:,1] += step_size_y*i
RECURSIVE LoopY(_, _, _, _)
LoopY(list, iy, n_tiles_y, step_size_y) ==
    IF iy >= n_tiles_y THEN list
    ELSE LoopY([ix \in 1..Len(list) |->
                   [list[ix] EXCEPT ![iy + 1] =
                       AddToCol(list[ix][iy + 1], 1, step_size_y * iy)]],
               iy + 1, n_tiles_y, step_size_y)

\* np.reshape of a (tx, ty, n, 4) array to (n*tx*ty, 4), in row-major order.
Reshape4(list, tx, ty, n) ==
    [p \in 1..(n * tx * ty) |->
        list[((p - 1) \div (ty * n)) + 1][(((p - 1) \div n) % ty) + 1][((p - 1) % n) + 1]]

PadAnchorsSwappedStride(input_anchors, n_tiles_x, n_tiles_y, step_size_x, step_size_y) ==
    LET n_input_anchors == Len(input_anchors)
        l0 == np_tile4(input_anchors, n_tiles_x, n_tiles_y)
        l1 == LoopX(l0, 0, n_tiles_x, step_size_x)
        l2 == LoopY(l1, 0, n_tiles_y, step_size_x)
    IN  Reshape4(l2, n_tiles_x, n_tiles_y, n_input_anchors)

pad_anchors(input_anchors, n_tiles_x, n_tiles_y, step_size_x, step_size_y) ==
    LET n_input_anchors == Len(input_anchors)
        l0 == np_tile4(input_anchors, n_tiles_x, n_tiles_y)
        l1 == LoopX(l0, 0, n_tiles_x, step_size_x)
        l2 == LoopY(l1, 0, n_tiles_y, step_size_y)
    IN  Reshape4(l2, n_tiles_x, n_tiles_y, n_input_anchors)

LibraryIdle ==
    /\ heap = <<>>
    /\ hist = <<>>
    /\ TrainingIdle

InitTile ==
    /\ pc = "ready"
    /\ \E b \in CtrBoxes, n \in 1..MaxTemplate, tx \in 0..MaxTiles, ty \in 0..MaxTiles,
          sx \in Strides, sy \in Strides :
          args = [op |-> "pad_anchors", input_anchors |-> BoxSet(b, n),
                  n_tiles_x |-> tx, n_tiles_y |-> ty,
                  step_size_x |-> sx, step_size_y |-> sy]
    /\ ret = <<>>
    /\ LibraryIdle

PadAnchors ==
    /\ pc = "ready"
    /\ args.op = "pad_anchors"
    /\ ret' = pad_anchors(args.input_anchors, args.n_tiles_x, args.n_tiles_y,
                          args.step_size_x, args.step_size_y)
    /\ pc' = "done"
    /\ UNCHANGED <<args, heap, hist, i, global_step, batches, checkpoints>>

NextTile == PadAnchors

SpecTile == InitTile /\ [][NextTile]_vars

-----------------------------------------------------------------------------
(* Anchor template generation (rpn_utils.py, lines 66-93).                 *)

MaxBase == 4       \* base sizes range over 1..MaxBase, and 16
MaxRatios == 2     \* longest list of ratios
MaxScales == 2     \* longest list of scales

\* Ratios whose square root is rational (and exact in floating point).
RatioSet == {Q(1, 4), Q(1, 1), Q(4, 1), Q(9, 1)}
ScaleSet == {1, 2, 3, 16}
BaseSizes == (1..MaxBase) \cup {16}

SeqsUpTo(S, n) == UNION {[1..k -> S] : k \in 1..n}

\* Python's int() of a number: truncation toward zero.
PyInt(x) == IF x[1] >= 0 THEN x[1] \div x[2] ELSE -((-x[1]) \div x[2])

\* np.sqrt of a rational that is a perfect square.
ISqrt(n) == CHOOSE k \in 0..n : k * k = n
np_sqrt(x) == Q(ISqrt(x[1]), ISqrt(x[2]))

\* np.round of one number: to the nearest integer, a tie to the even one.
np_round(x) ==
    LET f == x[1] \div x[2]
        twice == 2 * (x[1] - f * x[2])
    IN  IF twice < x[2] THEN QInt(f)
        ELSE IF twice > x[2] THEN QInt(f + 1)
        ELSE IF f % 2 = 0 THEN QInt(f) ELSE QInt(f + 1)

BaseAnchorRounded(base_size) ==
    <<np_round(QMul(QInt(base_size), QHalf)), np_round(QMul(QInt(base_size), QHalf)),
      QInt(base_size), QInt(base_size)>>

\* Lines 79-82.
BaseAnchor(base_size) ==
    <<QInt(PyInt(QMul(QInt(base_size), QHalf))), QInt(PyInt(QMul(QInt(base_size), QHalf))),
      QInt(base_size), QInt(base_size)>>

\* Line 84: np.tile(base_anchor, (len(scales), 1)), one row of its own per
\* scale.
np_tile_rows(row, n) == [k \in 1..n |-> row]

ScaleEveryRow(scaled_anchors, idx, sc) ==
    [k \in 1..Len(scaled_anchors) |->
        [scaled_anchors[k] EXCEPT ![3] = QMul(@, QInt(sc)), ![4] = QMul(@, QInt(sc))]]

\* Line 87: scaled_anchors[i,2:] *= s  (idx is the 0-based i).
ScaleRow(scaled_anchors, idx, sc) ==
    [scaled_anchors EXCEPT ![idx + 1] =
        [@ EXCEPT ![3] = QMul(@, QInt(sc)), ![4] = QMul(@, QInt(sc))]]

\* Lines 89-92 for one ratio r: the rounded anchor.
RatioAnchor(scaled_row, r) ==
    LET t == scaled_row
        t2 == [t EXCEPT ![3] = QMul(@, np_sqrt(r))]
        t3 == [t2 EXCEPT ![4] = QMul(@, QDiv(QInt(1), np_sqrt(r)))]
    IN  [c \in 1..4 |-> np_round(t3[c])]

\* Lines 86-92: the loop over the scales from index idx on; final_anchors
\* is the (len(scales), len(ratios), 4) array filled so far.
RECURSIVE ScaleLoop(_, _, _, _, _)
ScaleLoop(scaled_anchors, final_anchors, idx, ratios, scales) ==
    IF idx >= Len(scales) THEN final_anchors
    ELSE LET scaled == ScaleRow(scaled_anchors, idx, scales[idx + 1])
             row == [j \in 1..Len(ratios) |-> RatioAnchor(scaled[idx + 1], ratios[j])]
         IN  ScaleLoop(scaled, [final_anchors EXCEPT ![idx + 1] = row],
                       idx + 1, ratios, scales)

\* np.reshape of an (s, r, 4) array to (s*r, 4), in row-major order.
Reshape3(a, ns, nr) ==
    [p \in 1..(ns * nr) |-> a[((p - 1) \div nr) + 1][((p - 1) % nr) + 1]]

generate_anchors(base_size, ratios, scales) ==
    LET n_anchors == Len(ratios) * Len(scales)
        base_anchor == BaseAnchor(base_size)
        scaled_anchors == np_tile_rows(base_anchor, Len(scales))
        zeros == [a \in 1..Len(scales) |->
                    [b \in 1..Len(ratios) |-> <<QZero, QZero, QZero, QZero>>]]
        final_anchors == ScaleLoop(scaled_anchors, zeros, 0, ratios, scales)
    IN  Reshape3(final_anchors, Len(scales), Len(ratios))

InitGen ==
    /\ pc = "ready"
    /\ \E base_size \in BaseSizes, ratios \in SeqsUpTo(RatioSet, MaxRatios),
          scales \in SeqsUpTo(ScaleSet, MaxScales) :
          args = [op |-> "generate_anchors", base_size |-> base_size,
                  ratios |-> ratios, scales |-> scales]
    /\ ret = <<>>
    /\ LibraryIdle

GenerateAnchors ==
    /\ pc = "ready"
    /\ args.op = "generate_anchors"
    /\ ret' = generate_anchors(args.base_size, args.ratios, args.scales)
    /\ pc' = "done"
    /\ UNCHANGED <<args, heap, hist, i, global_step, batches, checkpoints>>

NextGen == GenerateAnchors

SpecGen == InitGen /\ [][NextGen]_vars

-----------------------------------------------------------------------------
(* Pairwise IoU on numpy arrays (rpn_utils.py, lines 96-224).              *)

MaxSet == 2        \* largest box set given to the IoU functions

\* An array argument: ndim 1 is a single box (data is the box), ndim 2 a box
\* set (data is the sequence of its boxes).
Single(b) == [ndim |-> 1, data |-> b]
Set2D(rows) == [ndim |-> 2, data |-> rows]

\* Lines 113-116 / 178-181: a single box becomes a set of one row.
AsRows(bb) == IF bb.ndim = 1 THEN <<bb.data>> ELSE bb.data

\* np.tile(a, [r0, r1]) of a 2-D array of shape (n, m): shape (n*r0, m*r1).
np_tile2(a, r0, r1) ==
    [r \in 1..(Len(a) * r0) |->
        [c \in 1..(4 * r1) |-> a[((r - 1) % Len(a)) + 1][((c - 1) % 4) + 1]]]

\* np.reshape of a 2-D array with `cols` columns to shape (rows, 4), in
\* row-major order.
ReshapeTo4(a, cols, rows) ==
    [r \in 1..rows |->
        [c \in 1..4 |->
            LET e == (r - 1) * 4 + (c - 1)
            IN  a[(e \div cols) + 1][(e % cols) + 1]]]

\* Lines 124-125 / 190-191.
TileFirst(bb1, n_1, n_2) == ReshapeTo4(np_tile2(bb1, 1, n_2), 4 * n_2, n_1 * n_2)
TileSecond(bb2, n_1, n_2) == np_tile2(bb2, n_1, 1)

\* Lines 128-139: the bounds of the intersection of centre-form rows a, b.
XyctrsBounds(a, b) ==
    [x1 |-> QMax(QSub(a[1], QMul(QHalf, a[3])), QSub(b[1], QMul(QHalf, b[3]))),
     y1 |-> QMax(QSub(a[2], QMul(QHalf, a[4])), QSub(b[2], QMul(QHalf, b[4]))),
     x2 |-> QMin(QAdd(a[1], QMul(QHalf, a[3])), QAdd(b[1], QMul(QHalf, b[3]))),
     y2 |-> QMin(QAdd(a[2], QMul(QHalf, a[4])), QAdd(b[2], QMul(QHalf, b[4])))]

\* Lines 194-205: the same for corner-form rows.
MinmaxBounds(a, b) ==
    [x1 |-> QMax(a[1], b[1]), y1 |-> QMax(a[2], b[2]),
     x2 |-> QMin(a[3], b[3]), y2 |-> QMin(a[4], b[4])]

\* Lines 146-147 and 212-213: the area of one row.
XyctrsArea(a) == QMul(a[4], a[3])
MinmaxArea(a) == QMul(QSub(a[4], a[2]), QSub(a[3], a[1]))

MaskedIoUNoHeightMask(bd, aarea, barea) ==
    LET w == QSub(bd.x2, bd.x1)
        h == QSub(bd.y2, bd.y1)
        inter == QMul(w, h)
        denom0 == QSub(QAdd(aarea, barea), inter)
        mask == (denom0 = QZero)
        denom == IF mask THEN Q(1, 10) ELSE denom0
        IoU0 == QDiv(inter, denom)
        IoU1 == IF mask THEN QZero ELSE IoU0
        IoU2 == IF QLe(w, QZero) THEN QZero ELSE IoU1
    IN  IoU2

\* Lines 141-156 / 207-222 for one element of the flat arrays.
MaskedIoU(bd, aarea, barea) ==
    LET w == QSub(bd.x2, bd.x1)
        h == QSub(bd.y2, bd.y1)
        inter == QMul(w, h)
        denom0 == QSub(QAdd(aarea, barea), inter)
        mask == (denom0 = QZero)
        denom == IF mask THEN Q(1, 10) ELSE denom0
        IoU0 == QDiv(inter, denom)
        IoU1 == IF mask THEN QZero ELSE IoU0
        IoU2 == IF QLe(w, QZero) THEN QZero ELSE IoU1
        IoU3 == IF QLe(h, QZero) THEN QZero ELSE IoU2
    IN  IoU3

\* np.reshape of a flat array to (n_1, n_2), in row-major order.
ReshapeFlat(flat, n_1, n_2) ==
    [r \in 1..n_1 |-> [c \in 1..n_2 |-> flat[(r - 1) * n_2 + c]]]

SqueezeWhenBothSingle(a, n_1, n_2) ==
    IF n_1 = 1 /\ n_2 = 1 THEN [shape |-> <<>>, data |-> a[1][1]]
    ELSE [shape |-> <<n_1, n_2>>, data |-> a]

\* np.squeeze of an (n_1, n_2) array: every axis of length 1 is removed.
np_squeeze(a, n_1, n_2) ==
    IF n_1 = 1 /\ n_2 = 1 THEN [shape |-> <<>>, data |-> a[1][1]]
    ELSE IF n_1 = 1 THEN [shape |-> <<n_2>>, data |-> a[1]]
    ELSE IF n_2 = 1 THEN [shape |-> <<n_1>>, data |-> [r \in 1..n_1 |-> a[r][1]]]
    ELSE [shape |-> <<n_1, n_2>>, data |-> a]

numpy_IoU_xyctrs(bb1, bb2) ==
    LET b1 == AsRows(bb1)
        b2 == AsRows(bb2)
        n_1 == Len(b1)
        n_2 == Len(b2)
        bb1_arr == TileFirst(b1, n_1, n_2)
        bb2_arr == TileSecond(b2, n_1, n_2)
        IoU == [p \in 1..(n_1 * n_2) |->
                   MaskedIoU(XyctrsBounds(bb1_arr[p], bb2_arr[p]),
                             XyctrsArea(bb1_arr[p]), XyctrsArea(bb2_arr[p]))]
    IN  np_squeeze(ReshapeFlat(IoU, n_1, n_2), n_1, n_2)

numpy_IoU_minmax(bb1, bb2) ==
    LET b1 == AsRows(bb1)
        b2 == AsRows(bb2)
        n_1 == Len(b1)
        n_2 == Len(b2)
        bb1_arr == TileFirst(b1, n_1, n_2)
        bb2_arr == TileSecond(b2, n_1, n_2)
        IoU == [p \in 1..(n_1 * n_2) |->
                   MaskedIoU(MinmaxBounds(bb1_arr[p], bb2_arr[p]),
                             MinmaxArea(bb1_arr[p]), MinmaxArea(bb2_arr[p]))]
    IN  np_squeeze(ReshapeFlat(IoU, n_1, n_2), n_1, n_2)

\* Inputs.  A row <<a, b, c, d>> is a centre-form box for numpy_IoU_xyctrs
\* and a corner-form box for numpy_IoU_minmax; c and d below a and b, or
\* below 0, give boxes of negative extent.
Offsets == {0, 1}
FirstBoxes == {<<0, 0, c, d>> : c \in (-1)..MaxExt, d \in (-1)..MaxExt}
SecondBoxes ==
    {<<a, b, c, d>> : a \in Offsets, b \in Offsets, c \in (-1)..MaxExt, d \in (-1)..MaxExt}
BoxPairs ==
    (FirstBoxes \X SecondBoxes) \cup {<<(<<0, 0, 10, 10>>), (<<5, 5, 15, 15>>)>>}

\* Box k of a set of n: b moved by k-1 along x and made k-1 taller.
IoUSet(b, n) ==
    [k \in 1..n |-> QBox(<<b[1] + (k - 1), b[2], b[3] + (k - 1), b[4] + (k - 1)>>)]

\* form 0: the single box b; form n >= 1: a set of n boxes.
Argument(b, form) == IF form = 0 THEN Single(QBox(b)) ELSE Set2D(IoUSet(b, form))

InitIoU ==
    /\ pc = "ready"
    /\ \E bp \in BoxPairs, f1 \in 0..MaxSet, f2 \in 0..MaxSet :
          args = [op |-> "IoU", bb1 |-> Argument(bp[1], f1), bb2 |-> Argument(bp[2], f2)]
    /\ ret = <<>>
    /\ LibraryIdle

IoUXyctrs ==
    /\ pc = "ready"
    /\ args.op = "IoU"
    /\ ret' = numpy_IoU_xyctrs(args.bb1, args.bb2)
    /\ pc' = "done_xyctrs"
    /\ UNCHANGED <<args, heap, hist, i, global_step, batches, checkpoints>>

IoUMinmax ==
    /\ pc = "ready"
    /\ args.op = "IoU"
    /\ ret' = numpy_IoU_minmax(args.bb1, args.bb2)
    /\ pc' = "done_minmax"
    /\ UNCHANGED <<args, heap, hist, i, global_step, batches, checkpoints>>

NextIoU == IoUXyctrs \/ IoUMinmax

SpecIoU == InitIoU /\ [][NextIoU]_vars

-----------------------------------------------------------------------------
(* Pairwise IoU as a TensorFlow graph (rpn_utils.py, lines 227-276).       *)

\* tf.nn.relu of one number.
relu(x) == QMax(x, QZero)

\* tf.divide of two floating-point numbers: x/0 is an infinity (<<1, 0>> or
\* <<-1, 0>>), and 0/0 is NaN (<<0, 0>>).
tf_divide(x, y) ==
    IF y # QZero THEN QDiv(x, y)
    ELSE IF x = QZero THEN <<0, 0>>
    ELSE IF QLt(QZero, x) THEN <<1, 0>> ELSE <<-1, 0>>

\* Lines 261-274 for one element of the flat tensors; a and b are the
\* centre-form rows.
BatchedIoU(a, b) ==
    LET bd == XyctrsBounds(a, b)
        w == relu(QAdd(QSub(bd.x2, bd.x1), QInt(1)))
        h == relu(QAdd(QSub(bd.y2, bd.y1), QInt(1)))
        inter == QMul(w, h)
        aarea == QMul(QAdd(a[4], QInt(1)), QAdd(a[3], QInt(1)))
        barea == QMul(QAdd(b[4], QInt(1)), QAdd(b[3], QInt(1)))
    IN  tf_divide(inter, QSub(QAdd(aarea, barea), inter))

\* compute_IoU(bb1_arr, bb2_arr) on two 2-D tensors.  The module imports
\* numpy alone (line 1): the name tf is bound only if the program that
\* loads the module puts it there, and line 246 raises NameError if not.
compute_IoU(bb1, bb2, tf_bound) ==
    LET n_1 == Len(bb1)
        n_2 == Len(bb2)
        bb1_arr == TileFirst(bb1, n_1, n_2)
        bb2_arr == TileSecond(bb2, n_1, n_2)
        IoU == [p \in 1..(n_1 * n_2) |-> BatchedIoU(bb1_arr[p], bb2_arr[p])]
    IN  IF ~tf_bound THEN [raised |-> TRUE, data |-> <<>>]
        ELSE [raised |-> FALSE, data |-> ReshapeFlat(IoU, n_1, n_2)]

InitBatched ==
    /\ pc = "ready"
    /\ \E bp \in BoxPairs, f1 \in 1..MaxSet, f2 \in 1..MaxSet, tf_bound \in BOOLEAN :
          args = [op |-> "compute_IoU", bb1 |-> IoUSet(bp[1], f1),
                  bb2 |-> IoUSet(bp[2], f2), tf_bound |-> tf_bound]
    /\ ret = <<>>
    /\ LibraryIdle

ComputeIoU ==
    /\ pc = "ready"
    /\ args.op = "compute_IoU"
    /\ ret' = compute_IoU(args.bb1, args.bb2, args.tf_bound)
    /\ pc' = "done"
    /\ UNCHANGED <<args, heap, hist, i, global_step, batches, checkpoints>>

NextBatched == ComputeIoU

SpecBatched == InitBatched /\ [][NextBatched]_vars

-----------------------------------------------------------------------------
(* The training loop (test_densenet.py, lines 78-120).                     *)

ITERATIONS == 200
SAVE_ITERATION == 50

\* Line 91, `i-1 % SAVE_ITERATION == 0`: in Python % binds tighter than
\* the binary minus, so this is i - (1 % SAVE_ITERATION) == 0.
SaveCondition(iter) == iter - (1 % SAVE_ITERATION) = 0

InitTrain ==
    /\ pc = "loop"
    /\ args = NoCall
    /\ ret = <<>>
    /\ heap = <<>>
    /\ hist = <<>>
    /\ TrainingIdle

\* Line 85: the next value of i from range(ITERATIONS), or the end of the
\* loop.  i holds the number of iterations begun before this one.
LoopHead ==
    /\ pc = "loop"
    /\ pc' = IF i < ITERATIONS THEN "fetch" ELSE "test"
    /\ UNCHANGED <<args, ret, heap, hist, i, global_step, batches, checkpoints>>

\* Line 89: data, label = mnist.train.next_batch(32)
FetchBatch ==
    /\ pc = "fetch"
    /\ batches' = batches + 1
    /\ pc' = "check"
    /\ UNCHANGED <<args, ret, heap, hist, i, global_step, checkpoints>>

\* Lines 91-95: saver.save(..., global_step=global_step) when the
\* condition holds.
SaveCheckpoint ==
    /\ pc = "check"
    /\ SaveCondition(i)
    /\ checkpoints' = checkpoints \cup {global_step}
    /\ pc' = "train"
    /\ UNCHANGED <<args, ret, heap, hist, i, global_step, batches>>

SkipCheckpoint ==
    /\ pc = "check"
    /\ ~SaveCondition(i)
    /\ pc' = "train"
    /\ UNCHANGED <<args, ret, heap, hist, i, global_step, batches, checkpoints>>

\* Lines 108-113: sess.run of train_step, which adds 1 to global_step; the
\* loop then moves to the next i.
TrainStep ==
    /\ pc = "train"
    /\ global_step' = global_step + 1
    /\ i' = i + 1
    /\ pc' = "loop"
    /\ UNCHANGED <<args, ret, heap, hist, batches, checkpoints>>

\* Lines 116-119: one more run of train_step, on a test batch.
TestStep ==
    /\ pc = "test"
    /\ global_step' = global_step + 1
    /\ pc' = "done"
    /\ UNCHANGED <<args, ret, heap, hist, i, batches, checkpoints>>

NextTrain ==
    \/ LoopHead
    \/ FetchBatch
    \/ SaveCheckpoint
    \/ SkipCheckpoint
    \/ TrainStep
    \/ TestStep

SpecTrain == InitTrain /\ [][NextTrain]_vars

-----------------------------------------------------------------------------
(* The claims.                                                             *)

LastCall == hist[Len(hist)]

\* C1: toCenterForm(toMinMax(B)) completes without error and returns a box
\* set equal to B, for every well-formed centre-form box set B and either
\* value of inPlace in either call.
C1_RoundTrip ==
    (/\ Len(hist) >= 2
     /\ hist[1].op = "toMinMax"
     /\ hist[2].op = "toCenterForm")
        => (/\ ~hist[2].raised
            /\ hist[2].outVal = hist[1].inVal)

\* C2: toMinMax maps every box (xc, yc, w, h) to
\* (xc - w/2, yc - h/2, xc + w/2, yc + h/2), with inPlace true and with
\* inPlace false.
MinMaxOf(b, m) ==
    /\ QAdd(m[1], m[1]) = QSub(QAdd(b[1], b[1]), b[3])
    /\ QAdd(m[2], m[2]) = QSub(QAdd(b[2], b[2]), b[4])
    /\ QAdd(m[3], m[3]) = QAdd(QAdd(b[1], b[1]), b[3])
    /\ QAdd(m[4], m[4]) = QAdd(QAdd(b[2], b[2]), b[4])

C2_ToMinMax ==
    \A k \in 1..Len(hist) :
        hist[k].op = "toMinMax" =>
            /\ ~hist[k].raised
            /\ Len(hist[k].outVal) = Len(hist[k].inVal)
            /\ \A r \in 1..Len(hist[k].inVal) :
                  MinMaxOf(hist[k].inVal[r], hist[k].outVal[r])

C2_Witness ==
    /\ Len(hist) = 1
    /\ hist[1].op = "toMinMax"
    /\ hist[1].in_place
    /\ Len(hist[1].inVal) >= 2
    /\ hist[1].inVal[1][3] = QInt(2)
    /\ hist[1].outVal[1][3] = QAdd(hist[1].inVal[1][1], QInt(1))

\* C3: a call with inPlace false leaves the caller's buffer as it was and
\* returns a separate buffer; a call with inPlace true returns the caller's
\* buffer.
C3_Frame ==
    hist # <<>> =>
        /\ ~LastCall.raised
        /\ ~LastCall.in_place =>
              /\ heap[LastCall.inRef] = LastCall.inVal
              /\ LastCall.outRef # LastCall.inRef
              /\ LastCall.outRef \in DOMAIN heap
        /\ LastCall.in_place => LastCall.outRef = LastCall.inRef

\* C4: pad_anchors returns len(T)*tilesX*tilesY boxes, and the box at flat
\* index (i*tilesY + j)*len(T) + k is T[k] with x_center + i*strideX and
\* y_center + j*strideY, width and height unchanged.
C4_Tiling ==
    (pc = "done" /\ args.op = "pad_anchors") =>
        LET T == args.input_anchors
            n == Len(T)
            tx == args.n_tiles_x
            ty == args.n_tiles_y
        IN  /\ Len(ret) = n * tx * ty
            /\ \A ti \in 0..(tx - 1), tj \in 0..(ty - 1), k \in 0..(n - 1) :
                  ret[(ti * ty + tj) * n + k + 1] =
                      <<QAdd(T[k + 1][1], QInt(ti * args.step_size_x)),
                        QAdd(T[k + 1][2], QInt(tj * args.step_size_y)),
                        T[k + 1][3], T[k + 1][4]>>

C4_Witness ==
    /\ pc = "done"
    /\ args.op = "pad_anchors"
    /\ Len(args.input_anchors) = 2
    /\ args.n_tiles_x = 2
    /\ args.n_tiles_y = 2
    /\ args.step_size_x = -2
    /\ args.step_size_y = 3
    /\ Len(ret) = 8
    /\ ret[8][1] = QSub(args.input_anchors[2][1], QInt(2))

\* C5: generate_anchors returns len(scales)*len(ratios) boxes; the box at
\* flat index a*len(ratios) + b has width the integer nearest to
\* scales[a]*baseSize*sqrt(ratios[b]) and height the integer nearest to
\* scales[a]*baseSize/sqrt(ratios[b]) (a tie goes to the even integer), so
\* that width*height is (scales[a]*baseSize)^2 up to rounding.
\* v is the integer nearest to the square root of num/den (num, den > 0)
\* when v - 1/2 <= sqrt(num/den) <= v + 1/2.
NearestToRoot(v, num, den) ==
    /\ v >= 0
    /\ (2 * v + 1) * (2 * v + 1) * den >= 4 * num
    /\ v >= 1 => (2 * v - 1) * (2 * v - 1) * den <= 4 * num
    /\ (2 * v + 1) * (2 * v + 1) * den = 4 * num => v % 2 = 0
    /\ (v >= 1 /\ (2 * v - 1) * (2 * v - 1) * den = 4 * num) => v % 2 = 0

C8_CenterRounded ==
    (pc = "done" /\ args.op = "generate_anchors") =>
        \A p \in 1..Len(ret) :
            /\ ret[p][1] = np_round(Q(args.base_size, 2))
            /\ ret[p][2] = np_round(Q(args.base_size, 2))

\* C8, amended: every anchor is centred at (baseSize/2, baseSize/2)
\* truncated to an integer, that is at floor(baseSize/2) on both axes.
C8_CenterTruncated ==
    (pc = "done" /\ args.op = "generate_anchors") =>
        \A p \in 1..Len(ret) :
            /\ ret[p][1] = QInt(args.base_size \div 2)
            /\ ret[p][2] = QInt(args.base_size \div 2)

C8_Witness ==
    /\ pc = "done"
    /\ args.op = "generate_anchors"
    /\ args.base_size = 3
    /\ Len(ret) = 4
    /\ ret[4][1] = QInt(1)
    /\ ret[4][2] = QInt(1)

\* The n_1 and n_2 of a call of an IoU function, and the entry of its result
\* for box bi of the first argument and box bj of the second.
RowsOf(bb) == IF bb.ndim = 1 THEN <<bb.data>> ELSE bb.data

EntryOf(r, n_1, n_2, bi, bj) ==
    IF r.shape = <<>> THEN r.data
    ELSE IF Len(r.shape) = 2 THEN r.data[bi][bj]
    ELSE IF n_1 = 1 THEN r.data[bj] ELSE r.data[bi]

IoUDone == pc \in {"done_xyctrs", "done_minmax"}

\* The unit squares of a grid of step 1/2 that a box covers: none when its
\* width or height is not positive.  The boxes of the model have integer
\* fields, so that their edges lie on this grid.
CellsOf(b) ==
    LET lo == IF pc = "done_xyctrs"
              THEN <<2 * b[1][1] - b[3][1], 2 * b[2][1] - b[4][1]>>
              ELSE <<2 * b[1][1], 2 * b[2][1]>>
        hi == IF pc = "done_xyctrs"
              THEN <<2 * b[1][1] + b[3][1], 2 * b[2][1] + b[4][1]>>
              ELSE <<2 * b[3][1], 2 * b[4][1]>>
    IN  (lo[1]..(hi[1] - 1)) \X (lo[2]..(hi[2] - 1))

\* Intersection area over union area, 0 when the intersection is empty.
StandardIoU(a, b) ==
    LET inter == Cardinality(CellsOf(a) \cap CellsOf(b))
        union == Cardinality(CellsOf(a) \cup CellsOf(b))
    IN  IF inter = 0 THEN QZero ELSE Q(inter, union)

\* C6: every entry of the result of iouCenterForm and iouCornerForm is the
\* standard IoU of its two boxes: intersection area over union area when
\* they overlap with positive width and height, 0 otherwise (boxes of
\* negative extent and a union of area 0 included); every entry lies in
\* [0, 1]; and iouCornerForm([0,0,10,10], [5,5,15,15]) = 25/175.
C6_StandardIoU ==
    IoUDone =>
        LET b1 == RowsOf(args.bb1)
            b2 == RowsOf(args.bb2)
        IN  /\ \A bi \in 1..Len(b1), bj \in 1..Len(b2) :
                  LET e == EntryOf(ret, Len(b1), Len(b2), bi, bj)
                  IN  /\ e = StandardIoU(b1[bi], b2[bj])
                      /\ QLe(QZero, e)
                      /\ QLe(e, QInt(1))
            /\ (/\ pc = "done_minmax"
                /\ b1[1] = QBox(<<0, 0, 10, 10>>)
                /\ b2[1] = QBox(<<5, 5, 15, 15>>))
                  => 175 * EntryOf(ret, Len(b1), Len(b2), 1, 1)[1]
                         = 25 * EntryOf(ret, Len(b1), Len(b2), 1, 1)[2]

C6_Witness ==
    /\ pc = "done_minmax"
    /\ args.bb1 = Single(QBox(<<0, 0, 10, 10>>))
    /\ args.bb2 = Single(QBox(<<5, 5, 15, 15>>))
    /\ ret.data = <<1, 7>>

\* The overlap of one box with one box, as the function that finished
\* computes it for two single boxes.
PairOverlap(a, b) ==
    IF pc = "done_xyctrs"
    THEN numpy_IoU_xyctrs(Single(a), Single(b)).data
    ELSE numpy_IoU_minmax(Single(a), Single(b)).data

\* C7 as stated: the result has shape (n1, n2), entry [i][j] the overlap of
\* box i of set1 with box j of set2, and is a scalar only when both inputs
\* are single boxes.
C7_ShapeN1N2 ==
    IoUDone =>
        LET b1 == RowsOf(args.bb1)
            b2 == RowsOf(args.bb2)
        IN  IF args.bb1.ndim = 1 /\ args.bb2.ndim = 1
            THEN ret.shape = <<>> /\ ret.data = PairOverlap(b1[1], b2[1])
            ELSE /\ ret.shape = <<Len(b1), Len(b2)>>
                 /\ \A bi \in 1..Len(b1), bj \in 1..Len(b2) :
                       ret.data[bi][bj] = PairOverlap(b1[bi], b2[bj])

\* C7, amended: the result is the (n1, n2) matrix of overlaps with every
\* axis of length 1 removed: shape (n1, n2) when n1, n2 >= 2, (n2,) when
\* n1 = 1 < n2, (n1,) when n2 = 1 < n1, a scalar when n1 = n2 = 1; its
\* entry for (i, j) is the overlap of box i of set1 with box j of set2.
C7_ShapeSqueezed ==
    IoUDone =>
        LET b1 == RowsOf(args.bb1)
            b2 == RowsOf(args.bb2)
        IN  /\ ret.shape = SelectSeq(<<Len(b1), Len(b2)>>, LAMBDA n : n # 1)
            /\ \A bi \in 1..Len(b1), bj \in 1..Len(b2) :
                  /\ Len(ret.shape) = 2 => ret.data[bi][bj] = PairOverlap(b1[bi], b2[bj])
                  /\ (Len(ret.shape) = 1 /\ Len(b1) = 1) =>
                        ret.data[bj] = PairOverlap(b1[1], b2[bj])
                  /\ (Len(ret.shape) = 1 /\ Len(b2) = 1) =>
                        ret.data[bi] = PairOverlap(b1[bi], b2[1])
                  /\ ret.shape = <<>> => ret.data = PairOverlap(b1[1], b2[1])

C7_Witness ==
    /\ pc = "done_xyctrs"
    /\ args.bb1.ndim = 2
    /\ Len(args.bb1.data) = 1
    /\ Len(args.bb2.data) = 2
    /\ args.bb2.ndim = 2
    /\ ret.shape = <<2>>
    /\ ret.data[1] # ret.data[2]

\* C9: compute_IoU returns 0 for every pair of well-formed centre-form
\* boxes with no spatial overlap, that is whose intervals are disjoint or
\* merely touching on at least one axis.  It is stated here for the calls
\* that return and for boxes of positive width and height.
WellFormed(b) == QLe(QZero, b[3]) /\ QLe(QZero, b[4])

PositiveArea(b) == QLt(QZero, b[3]) /\ QLt(QZero, b[4])

NoOverlap(a, b) ==
    \/ QLe(QAdd(a[3], b[3]), QAdd(QSub(QMax(a[1], b[1]), QMin(a[1], b[1])),
                                  QSub(QMax(a[1], b[1]), QMin(a[1], b[1]))))
    \/ QLe(QAdd(a[4], b[4]), QAdd(QSub(QMax(a[2], b[2]), QMin(a[2], b[2])),
                                  QSub(QMax(a[2], b[2]), QMin(a[2], b[2]))))

C9_DisjointIsZero ==
    (pc = "done" /\ args.op = "compute_IoU" /\ ~ret.raised) =>
        \A bi \in 1..Len(args.bb1), bj \in 1..Len(args.bb2) :
            (/\ WellFormed(args.bb1[bi]) /\ PositiveArea(args.bb1[bi])
             /\ WellFormed(args.bb2[bj]) /\ PositiveArea(args.bb2[bj])
             /\ NoOverlap(args.bb1[bi], args.bb2[bj]))
                => ret.data[bi][bj] = QZero

\* C10: the checkpoint is saved on every iteration i with
\* (i - 1) mod SAVE_ITERATION = 0 (i = 1, 51, 101, 151) and on no other,
\* after the batch of that iteration is fetched and before its training
\* step.
C10_PeriodicSave ==
    pc = "train" =>
        /\ ((i - 1) % SAVE_ITERATION = 0) <=> (global_step \in checkpoints)
        /\ batches = i + 1
        /\ global_step = i

=============================================================================
